---- MODULE Spec2Model ----
(***************************************************************************)
(* A model of sfm-utils: the scene data model of src/sfm_utils/sfm.py      *)
(* (Intrinsic and its variants, Pose, View, SfMScene and its add_*         *)
(* methods) and the exporters to OpenMVG and AliceVision of openmvg.py,    *)
(* alicevision.py, io.py, openMVG.py and sfm.py.                           *)
(*                                                                         *)
(* Python objects live in heaps (iheap, vheap, pheap): a reference is an   *)
(* index into the heap, so that two references to one object and two       *)
(* value-equal objects are different things, as they are in Python.        *)
(* Numbers that the code divides (ppx, ppy, focal_length_as_pixels) are    *)
(* exact rationals <<n, d>> in lowest terms; for the small integers used   *)
(* here two float quotients are equal exactly when the rationals are.      *)
(***************************************************************************)
EXTENDS Integers, Sequences, FiniteSets, TLC

VARIABLES iheap, vheap, pheap, views, intrinsics, poses, last, nops, hist

vars == <<iheap, vheap, pheap, views, intrinsics, poses, last, nops, hist>>

(***************************************************************************)
(* Bounds of the model.                                                    *)
(***************************************************************************)
\* calls made on one scene
MaxOps == 4
\* property assignments made on the intrinsic of SpecIntr
MaxSets == 3
\* image widths and heights are 2, 4, .., 2 * MaxDim pixels
MaxDim == 2
\* longest list assigned to dist_params
MaxParamLen == 6

(***************************************************************************)
(* Python values.                                                          *)
(***************************************************************************)
\* None, and a value that is not None
None == <<>>
Some(x) == <<x>>

Max(a, b) == IF a >= b THEN a ELSE b
Min(a, b) == IF a <= b THEN a ELSE b

RECURSIVE GCD(_, _)
GCD(a, b) == IF b = 0 THEN a ELSE GCD(b, a % b)

\* the quotient n / d (d > 0, n >= 0) as a float: a rational in lowest terms
Rat(n, d) == LET g == GCD(n, d) IN <<n \div g, d \div g>>

\* the outcome of reading a property: a value, or the exception raised
Ok(v) == [err |-> "none", val |-> v]
Raise(e) == [err |-> e, val |-> <<0, 1>>]

(***************************************************************************)
(* class Intrinsic and its subclasses.                                     *)
(***************************************************************************)
Classes == {"Intrinsic", "IntrinsicRadialK3", "IntrinsicBrownT2"}

\* Intrinsic(), IntrinsicRadialK3(), IntrinsicBrownT2(): the class
\* attributes, all None, and the dist_params list __init__ creates
NewIntrinsic(cls) ==
    [cls |-> cls, id |-> None, image_width |-> None, image_height |-> None,
     ppx |-> None, ppy |-> None, focal_length |-> None,
     focal_length_as_pixels |-> None, sensor_width |-> None,
     dist_params |-> CASE cls = "Intrinsic" -> None
                       [] cls = "IntrinsicRadialK3" -> Some(<<0, 0, 0>>)
                       [] cls = "IntrinsicBrownT2" -> Some(<<0, 0, 0, 0, 0>>)]

\* the type property of the three classes
Intrinsic_type(i) ==
    CASE i.cls = "Intrinsic" -> "pinhole"
      [] i.cls = "IntrinsicRadialK3" -> "radial3"
      [] i.cls = "IntrinsicBrownT2" -> "brownt2"

\* a ppx that forgets the explicit value
Intrinsic_ppx_IgnoresOverride(i) ==
    IF i.image_width = None THEN Raise("TypeError")
    ELSE Ok(Rat(i.image_width[1], 2))

\* the ppx property: width / 2.0 while _ppx is None
Intrinsic_ppx(i) ==
    IF i.ppx = None
    THEN IF i.image_width = None THEN Raise("TypeError")
         ELSE Ok(Rat(i.image_width[1], 2))
    ELSE Ok(i.ppx[1])

\* the ppy property: height / 2.0 while _ppy is None
Intrinsic_ppy(i) ==
    IF i.ppy = None
    THEN IF i.image_height = None THEN Raise("TypeError")
         ELSE Ok(Rat(i.image_height[1], 2))
    ELSE Ok(i.ppy[1])

\* a focal length in pixels scaled by the width instead of the larger side
Intrinsic_focal_length_as_pixels_WidthOnly(i) ==
    IF i.focal_length_as_pixels = None
    THEN IF \/ i.image_width = None
            \/ i.image_height = None
            \/ i.focal_length = None
            \/ i.sensor_width = None
         THEN Raise("TypeError")
         ELSE IF i.sensor_width[1] = 0 THEN Raise("ZeroDivisionError")
         ELSE Ok(Rat(i.image_width[1] * i.focal_length[1], i.sensor_width[1]))
    ELSE Ok(i.focal_length_as_pixels[1])

\* the focal_length_as_pixels property:
\* max(width, height) * focal_length / sensor_width while the override is None
Intrinsic_focal_length_as_pixels(i) ==
    IF i.focal_length_as_pixels = None
    THEN IF \/ i.image_width = None
            \/ i.image_height = None
            \/ i.focal_length = None
            \/ i.sensor_width = None
         THEN Raise("TypeError")
         ELSE IF i.sensor_width[1] = 0 THEN Raise("ZeroDivisionError")
         ELSE Ok(Rat(Max(i.image_width[1], i.image_height[1]) * i.focal_length[1],
                     i.sensor_width[1]))
    ELSE Ok(i.focal_length_as_pixels[1])

\* the property setters
Intrinsic_set_width(i, w) == [i EXCEPT !.image_width = Some(w)]
Intrinsic_set_height(i, h) == [i EXCEPT !.image_height = Some(h)]
Intrinsic_set_ppx(i, x) == [i EXCEPT !.ppx = Some(x)]
Intrinsic_set_ppy(i, y) == [i EXCEPT !.ppy = Some(y)]
Intrinsic_set_focal_length(i, f) == [i EXCEPT !.focal_length = Some(f)]
Intrinsic_set_focal_length_as_pixels(i, f) ==
    [i EXCEPT !.focal_length_as_pixels = Some(f)]
Intrinsic_set_sensor_width(i, w) == [i EXCEPT !.sensor_width = Some(w)]

\* the slice p[0:k]
Slice0(p, k) == SubSeq(p, 1, Min(Len(p), k))

\* the number of coefficients the dist_params setter of a class keeps
DistLen(cls) == IF cls = "IntrinsicRadialK3" THEN 3 ELSE 5

\* a setter that keeps the whole list
Intrinsic_set_dist_params_NoTruncate(i, p) == [i EXCEPT !.dist_params = Some(p)]

\* the dist_params setter of IntrinsicRadialK3 and IntrinsicBrownT2
Intrinsic_set_dist_params(i, p) ==
    [i EXCEPT !.dist_params = Some(Slice0(p, DistLen(i.cls)))]

\* the dist_params getter
Intrinsic_dist_params(i) == i.dist_params

\* a dist_params property that has a setter in every class
Intrinsic_dist_params_fset_Always(cls) == TRUE

\* whether the dist_params property of a class has a setter: the base class
\* declares the getter alone, the two subclasses add @dist_params.setter
Intrinsic_dist_params_fset(cls) == cls # "Intrinsic"

\* a setter that rebinds the dist_params of the class, shared by its instances
StoreAttr_ClassLevel(heap, o, new) ==
    [k \in DOMAIN heap |->
        IF k = o THEN new
        ELSE IF heap[k].cls = new.cls
             THEN [heap[k] EXCEPT !.dist_params = new.dist_params]
             ELSE heap[k]]

\* self._x = v in a setter: the attribute of this instance alone is rebound
StoreAttr(heap, o, new) == [heap EXCEPT ![o] = new]

(***************************************************************************)
(* Equality of intrinsics.                                                 *)
(***************************************************************************)
\* Intrinsic.__eq__: "True", "False", or the exception a property read raises
\* (eq = eq and ... stops reading properties at the first difference)
Intrinsic__eq__(self, other) ==
    IF Intrinsic_type(self) # Intrinsic_type(other) THEN "False"
    ELSE IF self.image_width # other.image_width THEN "False"
    ELSE IF self.image_height # other.image_height THEN "False"
    ELSE LET sx == Intrinsic_ppx(self)
             ox == Intrinsic_ppx(other)
             sy == Intrinsic_ppy(self)
             oy == Intrinsic_ppy(other)
             sf == Intrinsic_focal_length_as_pixels(self)
             of == Intrinsic_focal_length_as_pixels(other)
         IN  IF sx.err # "none" THEN sx.err
             ELSE IF ox.err # "none" THEN ox.err
             ELSE IF sx.val # ox.val THEN "False"
             ELSE IF sy.err # "none" THEN sy.err
             ELSE IF oy.err # "none" THEN oy.err
             ELSE IF sy.val # oy.val THEN "False"
             ELSE IF sf.err # "none" THEN sf.err
             ELSE IF of.err # "none" THEN of.err
             ELSE IF sf.val # of.val THEN "False"
             ELSE "True"

\* a subclass equality that forgets the distortion coefficients
IntrinsicDist__eq__NoDist(self, other) == Intrinsic__eq__(self, other)

\* IntrinsicRadialK3.__eq__ and IntrinsicBrownT2.__eq__
IntrinsicDist__eq__(self, other) ==
    LET base == Intrinsic__eq__(self, other)
    IN  IF base = "True"
        THEN IF self.dist_params = other.dist_params THEN "True" ELSE "False"
        ELSE base

\* the __eq__ of self's class
Class__eq__(self, other) ==
    IF self.cls = "Intrinsic" THEN Intrinsic__eq__(self, other)
    ELSE IntrinsicDist__eq__(self, other)

\* the expression a == b: Python asks the right operand first when its class
\* is a subclass of the left operand's class that overrides __eq__
PyEq(a, b) ==
    IF a.cls = "Intrinsic" /\ b.cls # "Intrinsic"
    THEN Class__eq__(b, a)
    ELSE Class__eq__(a, b)

(***************************************************************************)
(* Pose, View and SfMScene.                                                *)
(***************************************************************************)
\* what a Python name or attribute holds here: None, an int, or a reference
\* to a heap object
NoneVal == [kind |-> "none", val |-> 0]
IntVal(n) == [kind |-> "int", val |-> n]
RefVal(o) == [kind |-> "ref", val |-> o]

\* View(): _intrinsic is None; pose is the attribute the callers assign;
\* intrinsic_id and pose_id do not exist until they are assigned
NewView == [id |-> None, intrinsic |-> NoneVal, pose |-> NoneVal,
            intrinsic_id |-> [kind |-> "unset", val |-> 0],
            pose_id |-> [kind |-> "unset", val |-> 0]]

\* Pose(): _center and _rotation are None
NewPose == [id |-> None, center |-> None, rotation |-> None]

\* a 3x3 matrix is the tuple of its rows; np.eye(3, 3)
Eye3 == <<<<1, 0, 0>>, <<0, 1, 0>>, <<0, 0, 1>>>>

\* the center getter: [0, 0, 0] until a center was assigned
Pose_center(q) == IF q.center = None THEN <<0, 0, 0>> ELSE q.center[1]
\* the center setter keeps c[0:3]
Pose_set_center(q, c) == [q EXCEPT !.center = Some(SubSeq(c, 1, Min(Len(c), 3)))]
\* the rotation getter: the identity until a rotation was assigned
Pose_rotation(q) == IF q.rotation = None THEN Eye3 ELSE q.rotation[1]
Pose_set_rotation(q, r) == [q EXCEPT !.rotation = Some(r)]

\* x.id for the value x of a view's intrinsic or pose attribute: the id of
\* the object referred to; an int and None have no attribute id
AttrId(heap, x) ==
    IF x.kind = "ref"
    THEN IF heap[x.val].id = None THEN [err |-> "none", val |-> NoneVal]
         ELSE [err |-> "none", val |-> IntVal(heap[x.val].id[1])]
    ELSE [err |-> "AttributeError", val |-> NoneVal]

\* a view.add that numbers from 1
SfMScene_add_view_OneBased(vh, vs, v) ==
    [heap |-> [vh EXCEPT ![v].id = Some(Len(vs) + 1)],
     list |-> Append(vs, v),
     ret |-> IntVal(Len(vs) + 1),
     err |-> "none", hit |-> FALSE]

\* SfMScene.add_view(view): view.id = len(views); append; return view.id
SfMScene_add_view(vh, vs, v) ==
    [heap |-> [vh EXCEPT ![v].id = Some(Len(vs))],
     list |-> Append(vs, v),
     ret |-> IntVal(Len(vs)),
     err |-> "none", hit |-> FALSE]

\* SfMScene.add_pose(pose): pose.id = len(poses); append; return pose.id
SfMScene_add_pose(ph, ps, q) ==
    [heap |-> [ph EXCEPT ![q].id = Some(Len(ps))],
     list |-> Append(ps, q),
     ret |-> IntVal(Len(ps)),
     err |-> "none", hit |-> FALSE]

\* the loop of add_intrinsic from position k: the position of the first
\* stored intrinsic that intrinsic == existing finds equal, 0 when there is
\* none, or the exception the comparison raises
RECURSIVE ScanIntrinsics(_, _, _, _)
ScanIntrinsics(ih, is, o, k) ==
    IF k > Len(is) THEN [err |-> "none", at |-> 0]
    ELSE LET e == PyEq(ih[o], ih[is[k]])
         IN  IF e = "True" THEN [err |-> "none", at |-> k]
             ELSE IF e = "False" THEN ScanIntrinsics(ih, is, o, k + 1)
             ELSE [err |-> e, at |-> 0]

\* an add_intrinsic that looks for the same object, not for an equal one
SfMScene_add_intrinsic_Identity(ih, is, o, kw) ==
    IF kw # {}
    THEN [heap |-> ih, list |-> is, ret |-> NoneVal, err |-> "TypeError", hit |-> FALSE]
    ELSE IF \E k \in 1..Len(is) : is[k] = o
         THEN [heap |-> ih, list |-> is, ret |-> IntVal(ih[o].id[1]),
               err |-> "none", hit |-> TRUE]
         ELSE [heap |-> [ih EXCEPT ![o].id = Some(Len(is))],
               list |-> Append(is, o),
               ret |-> IntVal(Len(is)),
               err |-> "none", hit |-> FALSE]

\* an add_intrinsic that never looks for an equal intrinsic
SfMScene_add_intrinsic_NoScan(ih, is, o, kw) ==
    IF kw # {}
    THEN [heap |-> ih, list |-> is, ret |-> NoneVal, err |-> "TypeError", hit |-> FALSE]
    ELSE [heap |-> [ih EXCEPT ![o].id = Some(Len(is))],
          list |-> Append(is, o),
          ret |-> IntVal(Len(is)),
          err |-> "none", hit |-> FALSE]

\* an add_intrinsic that compares its argument with the last stored
\* intrinsic alone
SfMScene_add_intrinsic_LastOnly(ih, is, o, kw) ==
    IF kw # {}
    THEN [heap |-> ih, list |-> is, ret |-> NoneVal, err |-> "TypeError", hit |-> FALSE]
    ELSE IF is # <<>> /\ PyEq(ih[o], ih[is[Len(is)]]) = "True"
         THEN [heap |-> ih, list |-> is, ret |-> IntVal(ih[is[Len(is)]].id[1]),
               err |-> "none", hit |-> TRUE]
         ELSE [heap |-> [ih EXCEPT ![o].id = Some(Len(is))],
               list |-> Append(is, o),
               ret |-> IntVal(Len(is)),
               err |-> "none", hit |-> FALSE]

\* SfMScene.add_intrinsic(intrinsic), called with the keyword arguments kw:
\* the method takes no keyword but intrinsic, so any other raises TypeError
\* before the body runs; the body returns the id of the first equal stored
\* intrinsic, or numbers and appends the argument
SfMScene_add_intrinsic(ih, is, o, kw) ==
    IF kw # {}
    THEN [heap |-> ih, list |-> is, ret |-> NoneVal, err |-> "TypeError", hit |-> FALSE]
    ELSE LET scan == ScanIntrinsics(ih, is, o, 1)
         IN  IF scan.err # "none"
             THEN [heap |-> ih, list |-> is, ret |-> NoneVal, err |-> scan.err,
                   hit |-> FALSE]
             ELSE IF scan.at # 0
             THEN [heap |-> ih, list |-> is,
                   ret |-> IntVal(ih[is[scan.at]].id[1]),
                   err |-> "none", hit |-> TRUE]
             ELSE [heap |-> [ih EXCEPT ![o].id = Some(Len(is))],
                   list |-> Append(is, o),
                   ret |-> IntVal(Len(is)),
                   err |-> "none", hit |-> FALSE]

(***************************************************************************)
(* Inputs.                                                                 *)
(***************************************************************************)
Dims == {2 * k : k \in 1..MaxDim}
Points == {<<1, 1>>, <<3, 1>>}
Focals == {1, 2}
SensorWidths == {0, 1, 2}
FocalPixels == {<<2, 1>>, <<3, 1>>}
\* the lists <<1, .., n>>
ParamLists == {[k \in 1..n |-> k] : n \in 0..MaxParamLen}

\* an intrinsic as import_pgs_scan and the tests set one up before adding it
SetupIntrinsic(cls, w, h, f, sw) ==
    Intrinsic_set_sensor_width(
        Intrinsic_set_focal_length(
            Intrinsic_set_height(
                Intrinsic_set_width(NewIntrinsic(cls), w), h), f), sw)

\* the intrinsics a second instance is drawn from
Others ==
    {NewIntrinsic(c) : c \in Classes}
    \cup {SetupIntrinsic(c, 2, 2, 1, 1) : c \in Classes}
    \cup {Intrinsic_set_ppx(SetupIntrinsic("IntrinsicRadialK3", 2, 2, 1, 1), <<1, 1>>),
          Intrinsic_set_dist_params(SetupIntrinsic("IntrinsicRadialK3", 2, 2, 1, 1), <<1, 2, 3>>),
          [SetupIntrinsic("IntrinsicRadialK3", 2, 2, 2, 2) EXCEPT !.id = Some(1)]}

\* the last call made on the scene: its name, the heap cell of its argument,
\* its keyword arguments, its outcome, the length of the list and the id of
\* the argument before it, and (pop, parg, pret) the call before it
NoCall == [op |-> "none", arg |-> 0, kw |-> {}, err |-> "none", ret |-> NoneVal,
           prelen |-> 0, preid |-> None, hit |-> FALSE,
           pop |-> "none", parg |-> 0, pret |-> NoneVal]
NoHist == [ppx |-> None, ppy |-> None, focal_length_as_pixels |-> None,
           dist_params |-> None, dim_after_pp |-> FALSE,
           src_after_focal |-> FALSE, other_assigned |-> FALSE]

(***************************************************************************)
(* SpecIntr: property assignments on one intrinsic (heap cell 1) beside a  *)
(* second instance (heap cell 2) that nothing is assigned to.  hist is     *)
(* the caller's record of what it assigned explicitly: the last value      *)
(* given to ppx, ppy, focal_length_as_pixels and dist_params of the first  *)
(* instance, whether width/height (resp. a source field of the focal       *)
(* length) were assigned after such an explicit value, and whether the     *)
(* second instance was given dist_params before.                           *)
(***************************************************************************)
InitIntr ==
    /\ \E c \in Classes, o \in Others :
          \E s \in {NewIntrinsic(c), SetupIntrinsic(c, 2, 2, 1, 1)} :
             /\ iheap = <<s, o>>
             /\ hist = [NoHist EXCEPT !.other_assigned =
                           (o.dist_params # NewIntrinsic(o.cls).dist_params)]
    /\ vheap = <<>> /\ pheap = <<>>
    /\ views = <<>> /\ intrinsics = <<>> /\ poses = <<>>
    /\ last = NoCall
    /\ nops = 0

Assign(new, h) ==
    /\ nops < MaxSets
    /\ nops' = nops + 1
    /\ iheap' = StoreAttr(iheap, 1, new)
    /\ hist' = h
    /\ last' = NoCall
    /\ UNCHANGED <<vheap, pheap, views, intrinsics, poses>>

DimAssigned ==
    [hist EXCEPT !.dim_after_pp = (hist.ppx # None \/ hist.ppy # None),
                 !.src_after_focal = (hist.focal_length_as_pixels # None)]
SrcAssigned ==
    [hist EXCEPT !.src_after_focal = (hist.focal_length_as_pixels # None)]

SetWidth == \E w \in Dims : Assign(Intrinsic_set_width(iheap[1], w), DimAssigned)
SetHeight == \E h \in Dims : Assign(Intrinsic_set_height(iheap[1], h), DimAssigned)
SetPpx ==
    \E x \in Points :
        Assign(Intrinsic_set_ppx(iheap[1], x), [hist EXCEPT !.ppx = Some(x)])
SetPpy ==
    \E y \in Points :
        Assign(Intrinsic_set_ppy(iheap[1], y), [hist EXCEPT !.ppy = Some(y)])
SetFocalLength ==
    \E f \in Focals : Assign(Intrinsic_set_focal_length(iheap[1], f), SrcAssigned)
SetSensorWidth ==
    \E w \in SensorWidths :
        Assign(Intrinsic_set_sensor_width(iheap[1], w), SrcAssigned)
SetFocalLengthAsPixels ==
    \E f \in FocalPixels :
        Assign(Intrinsic_set_focal_length_as_pixels(iheap[1], f),
               [hist EXCEPT !.focal_length_as_pixels = Some(f)])
\* the base class has a dist_params getter and no setter: the assignment
\* raises AttributeError and changes nothing
SetDistParams ==
    \E p \in ParamLists :
        IF ~Intrinsic_dist_params_fset(iheap[1].cls)
        THEN /\ nops < MaxSets
             /\ nops' = nops + 1
             /\ last' = [NoCall EXCEPT !.op = "set_dist_params", !.arg = 1,
                                       !.err = "AttributeError"]
             /\ UNCHANGED <<iheap, vheap, pheap, views, intrinsics, poses, hist>>
        ELSE Assign(Intrinsic_set_dist_params(iheap[1], p),
                    [hist EXCEPT !.dist_params = Some(p)])

NextIntr ==
    \/ SetWidth
    \/ SetHeight
    \/ SetPpx
    \/ SetPpy
    \/ SetFocalLength
    \/ SetSensorWidth
    \/ SetFocalLengthAsPixels
    \/ SetDistParams

SpecIntr == InitIntr /\ [][NextIntr]_vars

(***************************************************************************)
(* Spec: calls on one SfMScene.  The caller constructs an entity and adds  *)
(* it, or adds again an entity it still holds; as the tests do, it may     *)
(* store what add_intrinsic / add_pose returned in the intrinsic / pose    *)
(* attribute of the view it constructed last; it may assign the width of   *)
(* an intrinsic it holds.                                                  *)
(***************************************************************************)
\* the intrinsics a caller constructs: a RadialK3, the same with ppx assigned
\* its default value, a Pinhole, and a RadialK3 with coefficients
ScenePresets ==
    {SetupIntrinsic("IntrinsicRadialK3", 2, 2, 1, 1),
     Intrinsic_set_ppx(SetupIntrinsic("IntrinsicRadialK3", 2, 2, 1, 1), <<1, 1>>),
     SetupIntrinsic("Intrinsic", 2, 2, 1, 1),
     Intrinsic_set_dist_params(SetupIntrinsic("IntrinsicRadialK3", 2, 2, 1, 1), <<1, 2, 3>>)}

GroupModels == {{}, {<<"group_models", FALSE>>}}

Init ==
    /\ iheap = <<>> /\ vheap = <<>> /\ pheap = <<>>
    /\ views = <<>> /\ intrinsics = <<>> /\ poses = <<>>
    /\ last = NoCall
    /\ nops = 0
    /\ hist = NoHist

Called(op, arg, kw, r, prelen, preid) ==
    [op |-> op, arg |-> arg, kw |-> kw, err |-> r.err, ret |-> r.ret,
     prelen |-> prelen, preid |-> preid, hit |-> r.hit,
     pop |-> last.op, parg |-> last.arg, pret |-> last.ret]

Step ==
    /\ nops < MaxOps
    /\ nops' = nops + 1
    /\ UNCHANGED hist

\* scene.add_view(view)
AddView(vh, v) ==
    \E r \in {SfMScene_add_view(vh, views, v)} :
        /\ Step
        /\ vheap' = r.heap
        /\ views' = r.list
        /\ last' = Called("add_view", v, {}, r, Len(views), vh[v].id)
        /\ UNCHANGED <<iheap, pheap, intrinsics, poses>>

AddViewNew == AddView(Append(vheap, NewView), Len(vheap) + 1)
AddViewAgain == \E v \in 1..Len(vheap) : AddView(vheap, v)

\* scene.add_pose(pose), or view.pose = scene.add_pose(pose)
AddPose(ph, q, assign) ==
    \E r \in {SfMScene_add_pose(ph, poses, q)} :
        /\ Step
        /\ assign => Len(vheap) > 0
        /\ pheap' = r.heap
        /\ poses' = r.list
        /\ vheap' = IF assign THEN [vheap EXCEPT ![Len(vheap)].pose = r.ret]
                    ELSE vheap
        /\ last' = Called("add_pose", q, {}, r, Len(poses), ph[q].id)
        /\ UNCHANGED <<iheap, views, intrinsics>>

AddPoseNew == \E assign \in BOOLEAN : AddPose(Append(pheap, NewPose), Len(pheap) + 1, assign)
AddPoseAgain == \E q \in 1..Len(pheap), assign \in BOOLEAN : AddPose(pheap, q, assign)

\* scene.add_intrinsic(intrinsic, **kw), or
\* view.intrinsic = scene.add_intrinsic(intrinsic, **kw)
AddIntrinsic(ih, o, kw, assign) ==
    \E r \in {SfMScene_add_intrinsic(ih, intrinsics, o, kw)} :
        /\ Step
        /\ assign => Len(vheap) > 0
        /\ iheap' = r.heap
        /\ intrinsics' = r.list
        /\ vheap' = IF assign /\ r.err = "none"
                    THEN [vheap EXCEPT ![Len(vheap)].intrinsic = r.ret]
                    ELSE vheap
        /\ last' = Called("add_intrinsic", o, kw, r, Len(intrinsics), ih[o].id)
        /\ UNCHANGED <<pheap, views, poses>>

AddIntrinsicNew ==
    \E i \in ScenePresets, kw \in GroupModels, assign \in BOOLEAN :
        AddIntrinsic(Append(iheap, i), Len(iheap) + 1, kw, assign)
AddIntrinsicAgain ==
    \E o \in 1..Len(iheap), kw \in GroupModels, assign \in BOOLEAN :
        AddIntrinsic(iheap, o, kw, assign)

\* intrinsic.width = w on an intrinsic the caller holds
AssignWidth ==
    \E o \in 1..Len(iheap), w \in Dims :
        /\ Step
        /\ iheap' = StoreAttr(iheap, o, Intrinsic_set_width(iheap[o], w))
        /\ last' = [NoCall EXCEPT !.op = "set_width", !.arg = o,
                                  !.pop = last.op, !.parg = last.arg,
                                  !.pret = last.ret]
        /\ UNCHANGED <<vheap, pheap, views, intrinsics, poses>>

Next ==
    \/ AddViewNew
    \/ AddViewAgain
    \/ AddPoseNew
    \/ AddPoseAgain
    \/ AddIntrinsicNew
    \/ AddIntrinsicAgain
    \/ AssignWidth

Spec == Init /\ [][Next]_vars

(***************************************************************************)
(* The exporters.  A scene is passed as the record of its heaps and lists; *)
(* an exporter returns [err, data]: the exception it raises ("none" when   *)
(* it returns) and the dict it built.  str(x) is the tagged value Str(x),  *)
(* which differs from x itself.                                            *)
(***************************************************************************)
SceneOf(ih, vh, ph, vs, is, ps) ==
    [ih |-> ih, vh |-> vh, ph |-> ph, vs |-> vs, is |-> is, ps |-> ps]

\* the element of a one-element set: {e(x) : x \in {v}} names the value v
\* once for the several uses e makes of it
Only(S) == CHOOSE x \in S : TRUE

\* str(x)
Str(x) == <<"str", x>>
\* [str(i) for i in xs]
StrEach(xs) == [k \in DOMAIN xs |-> Str(xs[k])]

\* the first exception among the outcomes of reads made in this order
RECURSIVE FirstErr(_)
FirstErr(es) ==
    IF es = <<>> THEN "none"
    ELSE IF Head(es) # "none" THEN Head(es) ELSE FirstErr(Tail(es))

\* the matrix product a @ b of two 3x3 matrices
MatMul(a, b) ==
    [r \in 1..3 |->
        [c \in 1..3 |-> a[r][1] * b[1][c] + a[r][2] * b[2][c] + a[r][3] * b[3][c]]]

\* __OPENMVG_ROT_MAT
OPENMVG_ROT_MAT == <<<<-1, 0, 0>>, <<0, 1, 0>>, <<0, 0, -1>>>>

\* the type an intrinsic reports to the exporters: a member of IntrinsicType
IntrinsicType_of(i) ==
    CASE i.cls = "Intrinsic" -> "PINHOLE"
      [] i.cls = "IntrinsicRadialK3" -> "RADIAL_K3"
      [] i.cls = "IntrinsicBrownT2" -> "BROWN_T2"

\* __OPENMVG_INTRINSIC_NAME_MAP and __OPENMVG_DIST_NAME_MAP
OPENMVG_INTRINSIC_NAME_MAP ==
    [PINHOLE |-> "pinhole", RADIAL_K3 |-> "pinhole_radial_k3",
     BROWN_T2 |-> "pinhole_brown_t2"]
\* a distortion name map without the Brown entry
OPENMVG_DIST_NAME_MAP_NoBrown == [RADIAL_K3 |-> "disto_k3"]
OPENMVG_DIST_NAME_MAP == [RADIAL_K3 |-> "disto_k3", BROWN_T2 |-> "disto_t2"]

\* m[k] of a dict: the value, or KeyError
Lookup(m, k) ==
    IF k \in DOMAIN m THEN [err |-> "none", val |-> m[k]]
    ELSE [err |-> "KeyError", val |-> "none"]

\* Pointer ids are held as their offset from 2^31 = 2147483648, the bit the
\* serializer sets on a first occurrence: n stands for 2147483648 + n, and
\* the initial value 2147483649 of the pointer counter of an export is
ptr_cnt_init == 1
\* the polymorphic ids of view and intrinsic entries, which nothing is
\* added to
view_polymorphic_id == "1073741824"
intrinsic_polymorphic_id == "2147483649"

\* the entries an exporter builds when a read raised
NoEntry == [key |-> None]

\* open_mvg_view of scene_to_openmvg, with the counter cnt: the entry and
\* the counter after it
open_mvg_view(sc, view, cnt) ==
    LET ii == AttrId(sc.ih, view.intrinsic)
        pi == AttrId(sc.ph, view.pose)
        e  == FirstErr(<<ii.err, pi.err>>)
    IN  IF e # "none" THEN [err |-> e, d |-> NoEntry, cnt |-> cnt]
        ELSE [err |-> "none",
              d |-> [key |-> view.id,
                     polymorphic_id |-> view_polymorphic_id,
                     ptr_id |-> cnt,
                     id_view |-> view.id,
                     id_intrinsic |-> ii.val,
                     id_pose |-> pi.val],
              cnt |-> cnt + 1]

\* the data of an intrinsic entry, with its distortion key when it has one
IntrinsicData(i, f, x, y, keys) ==
    [width |-> i.image_width, height |-> i.image_height,
     focal_length |-> f, principal_point |-> <<x, y>>, dist |-> keys]

\* open_mvg_intrinsic of scene_to_openmvg
open_mvg_intrinsic(i, cnt) ==
    LET name == Lookup(OPENMVG_INTRINSIC_NAME_MAP, IntrinsicType_of(i))
        f == Intrinsic_focal_length_as_pixels(i)
        x == Intrinsic_ppx(i)
        y == Intrinsic_ppy(i)
        dn == IF Intrinsic_dist_params(i) # None
              THEN Lookup(OPENMVG_DIST_NAME_MAP, IntrinsicType_of(i))
              ELSE [err |-> "none", val |-> "none"]
        e == FirstErr(<<name.err, f.err, x.err, y.err, dn.err>>)
    IN  IF e # "none" THEN [err |-> e, d |-> NoEntry, cnt |-> cnt]
        ELSE [err |-> "none",
              d |-> [key |-> i.id,
                     polymorphic_id |-> intrinsic_polymorphic_id,
                     polymorphic_name |-> name.val,
                     ptr_id |-> cnt,
                     data |-> IntrinsicData(i, f.val, x.val, y.val,
                                 IF Intrinsic_dist_params(i) # None
                                 THEN {<<dn.val, Intrinsic_dist_params(i)[1]>>}
                                 ELSE {})],
              cnt |-> cnt + 1]

\* a conversion that multiplies on the right
open_mvg_extrinsic_RightMul(q, convert_rotations) ==
    [err |-> "none",
     d |-> [key |-> q.id,
            rotation |-> IF convert_rotations
                         THEN MatMul(Pose_rotation(q), OPENMVG_ROT_MAT)
                         ELSE Pose_rotation(q),
            center |-> Pose_center(q)]]

\* open_mvg_extrinsic of scene_to_openmvg
open_mvg_extrinsic(q, convert_rotations) ==
    [err |-> "none",
     d |-> [key |-> q.id,
            rotation |-> IF convert_rotations
                         THEN MatMul(OPENMVG_ROT_MAT, Pose_rotation(q))
                         ELSE Pose_rotation(q),
            center |-> Pose_center(q)]]

\* what an exporter that raised has built
NoData == [format |-> "none"]

\* [open_mvg_view(view) for view in scene.views] from position k
RECURSIVE open_mvg_views(_, _, _)
open_mvg_views(sc, k, cnt) ==
    IF k > Len(sc.vs) THEN [err |-> "none", list |-> <<>>, cnt |-> cnt]
    ELSE Only({IF e.err # "none" THEN [err |-> e.err, list |-> <<>>, cnt |-> cnt]
               ELSE Only({[err |-> r.err, list |-> <<e.d>> \o r.list, cnt |-> r.cnt] :
                             r \in {open_mvg_views(sc, k + 1, e.cnt)}}) :
                  e \in {open_mvg_view(sc, sc.vh[sc.vs[k]], cnt)}})

\* [open_mvg_intrinsic(intr) for intr in scene.intrinsics] from position k
RECURSIVE open_mvg_intrinsics(_, _, _)
open_mvg_intrinsics(sc, k, cnt) ==
    IF k > Len(sc.is) THEN [err |-> "none", list |-> <<>>, cnt |-> cnt]
    ELSE Only({IF e.err # "none" THEN [err |-> e.err, list |-> <<>>, cnt |-> cnt]
               ELSE Only({[err |-> r.err, list |-> <<e.d>> \o r.list, cnt |-> r.cnt] :
                             r \in {open_mvg_intrinsics(sc, k + 1, e.cnt)}}) :
                  e \in {open_mvg_intrinsic(sc.ih[sc.is[k]], cnt)}})

\* [open_mvg_extrinsic(extr) for extr in scene.poses]
open_mvg_extrinsics(sc, convert_rotations) ==
    [k \in DOMAIN sc.ps |-> open_mvg_extrinsic(sc.ph[sc.ps[k]], convert_rotations).d]

\* a counter kept outside the call: an export goes on from where the one
\* before it stopped
ptr_cnt_start_Persistent(prev) == prev

\* __ptr_cnt = 2147483649 at the head of scene_to_openmvg: a local of the
\* call, whatever value prev the counter of the export before ended with
ptr_cnt_start(prev) == ptr_cnt_init

\* a numbering that begins with the intrinsics
OpenMVGLists_IntrinsicsFirst(sc, cnt) ==
    Only({Only({[err |-> FirstErr(<<vs.err, is.err>>), views |-> vs.list,
                 intrinsics |-> is.list, cnt |-> vs.cnt] :
                   vs \in {open_mvg_views(sc, 1, is.cnt)}}) :
             is \in {open_mvg_intrinsics(sc, 1, cnt)}})

\* the views and then the intrinsics of the data dict, numbered by the one
\* counter in the order the dict literal evaluates them
OpenMVGLists(sc, cnt) ==
    Only({Only({[err |-> FirstErr(<<vs.err, is.err>>), views |-> vs.list,
                 intrinsics |-> is.list, cnt |-> is.cnt] :
                   is \in {open_mvg_intrinsics(sc, 1, vs.cnt)}}) :
             vs \in {open_mvg_views(sc, 1, cnt)}})

\* scene_to_openmvg(scene, convert_rotations)
scene_to_openmvg(sc, convert_rotations, prev) ==
    Only({IF l.err # "none" THEN [err |-> l.err, data |-> NoData, cnt |-> prev]
          ELSE [err |-> "none",
                data |-> [format |-> "openmvg",
                          sfm_data_version |-> "0.3",
                          views |-> l.views,
                          intrinsics |-> l.intrinsics,
                          extrinsics |-> open_mvg_extrinsics(sc, convert_rotations)],
                cnt |-> l.cnt] :
             l \in {OpenMVGLists(sc, ptr_cnt_start(prev))}})

\* __AV_INTRINSIC_NAME_MAP
AV_INTRINSIC_NAME_MAP ==
    [PINHOLE |-> "pinhole", RADIAL_K3 |-> "radial3", BROWN_T2 |-> "brownt2"]

\* av_view of scene_to_alicevision
av_view(sc, view) ==
    LET pi == AttrId(sc.ph, view.pose)
        ii == AttrId(sc.ih, view.intrinsic)
        e  == FirstErr(<<pi.err, ii.err>>)
    IN  IF e # "none" THEN [err |-> e, d |-> NoEntry]
        ELSE [err |-> "none",
              d |-> [viewID |-> Str(view.id), poseID |-> Str(pi.val),
                     intrinsicID |-> Str(ii.val)]]

\* av_intrinsic of scene_to_alicevision
av_intrinsic(i) ==
    LET t == Lookup(AV_INTRINSIC_NAME_MAP, IntrinsicType_of(i))
        f == Intrinsic_focal_length_as_pixels(i)
        x == Intrinsic_ppx(i)
        y == Intrinsic_ppy(i)
        e == FirstErr(<<t.err, f.err, x.err, y.err>>)
    IN  IF e # "none" THEN [err |-> e, d |-> NoEntry]
        ELSE [err |-> "none",
              d |-> [intrinsicID |-> Str(i.id), serialNumber |-> Str(i.id),
                     type |-> t.val,
                     data |-> IntrinsicData(i, Str(f.val), Str(x.val), Str(y.val),
                                 IF Intrinsic_dist_params(i) # None
                                 THEN {<<"distortionParams",
                                         StrEach(Intrinsic_dist_params(i)[1])>>}
                                 ELSE {})]]

\* column j of a matrix
Col(m, j) == <<m[1][j], m[2][j], m[3][j]>>
\* np.ravel(m, order='C'): the rows one after another
Ravel_C(m) == m[1] \o m[2] \o m[3]
\* np.ravel(m, order='F'): the columns one after another
Ravel_F(m) == Col(m, 1) \o Col(m, 2) \o Col(m, 3)

\* av_pose of scene_to_alicevision
av_pose(q) ==
    [poseId |-> Str(q.id),
     rotation |-> StrEach(Ravel_F(Pose_rotation(q))),
     center |-> StrEach(Pose_center(q)),
     locked |-> "0"]

\* the entries of a list, or the first exception building one raises
RECURSIVE Entries(_)
Entries(es) ==
    IF es = <<>> THEN [err |-> "none", list |-> <<>>]
    ELSE IF Head(es).err # "none" THEN [err |-> Head(es).err, list |-> <<>>]
         ELSE Only({[err |-> r.err, list |-> <<Head(es).d>> \o r.list] :
                       r \in {Entries(Tail(es))}})

\* scene_to_alicevision(scene)
scene_to_alicevision(sc) ==
    Only({IF FirstErr(<<vs.err, is.err>>) # "none"
          THEN [err |-> FirstErr(<<vs.err, is.err>>), data |-> NoData]
          ELSE [err |-> "none",
                data |-> [format |-> "alicevision",
                          version |-> <<"1", "0", "0">>,
                          views |-> vs.list,
                          intrinsics |-> is.list,
                          poses |-> [k \in DOMAIN sc.ps |-> av_pose(sc.ph[sc.ps[k]])]]] :
             vs \in {Entries([k \in DOMAIN sc.vs |-> av_view(sc, sc.vh[sc.vs[k]])])},
             is \in {Entries([k \in DOMAIN sc.is |-> av_intrinsic(sc.ih[sc.is[k]])])}})

(***************************************************************************)
(* The exporters of sfm.py, which read view.intrinsic_id and view.pose_id. *)
(***************************************************************************)
\* view.intrinsic_id, view.pose_id: the value assigned, or AttributeError
\* when none was
GetAttr(x) ==
    IF x.kind = "unset" THEN [err |-> "AttributeError", val |-> NoneVal]
    ELSE [err |-> "none", val |-> x]

\* open_mvg_view of sfm_export_openmvg
sfm_open_mvg_view(view, cnt) ==
    LET ii == GetAttr(view.intrinsic_id)
        pi == GetAttr(view.pose_id)
        e  == FirstErr(<<ii.err, pi.err>>)
    IN  IF e # "none" THEN [err |-> e, d |-> NoEntry, cnt |-> cnt]
        ELSE [err |-> "none",
              d |-> [key |-> view.id,
                     polymorphic_id |-> view_polymorphic_id,
                     ptr_id |-> cnt,
                     id_view |-> view.id,
                     id_intrinsic |-> ii.val,
                     id_pose |-> pi.val],
              cnt |-> cnt + 1]

\* open_mvg_intrinsic of sfm_export_openmvg: name and distortion key by
\* type(intrinsic)
sfm_open_mvg_intrinsic(i, cnt) ==
    LET name == CASE i.cls = "Intrinsic" -> "pinhole"
                  [] i.cls = "IntrinsicRadialK3" -> "pinhole_radial_k3"
                  [] i.cls = "IntrinsicBrownT2" -> "pinhole_brown_t2"
        dist_key == CASE i.cls = "Intrinsic" -> None
                      [] i.cls = "IntrinsicRadialK3" -> Some("disto_k3")
                      [] i.cls = "IntrinsicBrownT2" -> Some("disto_t2")
        dist == IF i.cls = "Intrinsic" THEN None ELSE Intrinsic_dist_params(i)
        f == Intrinsic_focal_length_as_pixels(i)
        x == Intrinsic_ppx(i)
        y == Intrinsic_ppy(i)
        e == FirstErr(<<f.err, x.err, y.err>>)
    IN  IF e # "none" THEN [err |-> e, d |-> NoEntry, cnt |-> cnt]
        ELSE [err |-> "none",
              d |-> [key |-> i.id,
                     polymorphic_id |-> intrinsic_polymorphic_id,
                     polymorphic_name |-> name,
                     ptr_id |-> cnt,
                     data |-> IntrinsicData(i, f.val, x.val, y.val,
                                 IF dist_key # None /\ dist # None
                                 THEN {<<dist_key[1], dist[1]>>}
                                 ELSE {})],
              cnt |-> cnt + 1]

RECURSIVE sfm_open_mvg_views(_, _, _)
sfm_open_mvg_views(sc, k, cnt) ==
    IF k > Len(sc.vs) THEN [err |-> "none", list |-> <<>>, cnt |-> cnt]
    ELSE Only({IF e.err # "none" THEN [err |-> e.err, list |-> <<>>, cnt |-> cnt]
               ELSE Only({[err |-> r.err, list |-> <<e.d>> \o r.list, cnt |-> r.cnt] :
                             r \in {sfm_open_mvg_views(sc, k + 1, e.cnt)}}) :
                  e \in {sfm_open_mvg_view(sc.vh[sc.vs[k]], cnt)}})

RECURSIVE sfm_open_mvg_intrinsics(_, _, _)
sfm_open_mvg_intrinsics(sc, k, cnt) ==
    IF k > Len(sc.is) THEN [err |-> "none", list |-> <<>>, cnt |-> cnt]
    ELSE Only({IF e.err # "none" THEN [err |-> e.err, list |-> <<>>, cnt |-> cnt]
               ELSE Only({[err |-> r.err, list |-> <<e.d>> \o r.list, cnt |-> r.cnt] :
                             r \in {sfm_open_mvg_intrinsics(sc, k + 1, e.cnt)}}) :
                  e \in {sfm_open_mvg_intrinsic(sc.ih[sc.is[k]], cnt)}})

\* sfm_export_openmvg up to the dict: open_mvg_extrinsic names
\* __PGS_TO_OPENMVG_ROT_MAT, which the module does not define, so the first
\* pose raises NameError
sfm_export_openmvg(sc, prev) ==
    Only({Only({Only({IF e # "none" THEN [err |-> e, data |-> NoData, cnt |-> prev]
                      ELSE [err |-> "none",
                            data |-> [format |-> "openmvg",
                                      sfm_data_version |-> "0.3",
                                      views |-> vs.list,
                                      intrinsics |-> is.list,
                                      extrinsics |-> <<>>],
                            cnt |-> is.cnt] :
                         e \in {FirstErr(<<vs.err, is.err,
                                           IF sc.ps # <<>> THEN "NameError"
                                           ELSE "none">>)}}) :
                   is \in {sfm_open_mvg_intrinsics(sc, 1, vs.cnt)}}) :
             vs \in {sfm_open_mvg_views(sc, 1, ptr_cnt_start(prev))}})

\* av_view of sfm_export_alicevision
sfm_av_view(view) ==
    LET pi == GetAttr(view.pose_id)
        ii == GetAttr(view.intrinsic_id)
        e  == FirstErr(<<pi.err, ii.err>>)
    IN  IF e # "none" THEN [err |-> e, d |-> NoEntry]
        ELSE [err |-> "none",
              d |-> [viewID |-> Str(view.id), poseID |-> Str(pi.val),
                     intrinsicID |-> Str(ii.val)]]

\* av_intrinsic of sfm_export_alicevision: dist is read when
\* type(intrinsic) is IntrinsicRadialK3 and stays None otherwise
sfm_av_intrinsic(i) ==
    LET dist == IF i.cls = "IntrinsicRadialK3"
                THEN Some(StrEach(Intrinsic_dist_params(i)[1]))
                ELSE None
        f == Intrinsic_focal_length_as_pixels(i)
        x == Intrinsic_ppx(i)
        y == Intrinsic_ppy(i)
        e == FirstErr(<<f.err, x.err, y.err>>)
    IN  IF e # "none" THEN [err |-> e, d |-> NoEntry]
        ELSE [err |-> "none",
              d |-> [intrinsicID |-> Str(i.id), serialNumber |-> Str(i.id),
                     type |-> Intrinsic_type(i),
                     data |-> IntrinsicData(i, Str(f.val), Str(x.val), Str(y.val),
                                 IF dist # None
                                 THEN {<<"distortionParams", dist[1]>>}
                                 ELSE {})]]

\* sfm_export_alicevision up to the dict
sfm_export_alicevision(sc) ==
    Only({IF FirstErr(<<vs.err, is.err>>) # "none"
          THEN [err |-> FirstErr(<<vs.err, is.err>>), data |-> NoData]
          ELSE [err |-> "none",
                data |-> [format |-> "alicevision",
                          version |-> <<"1", "0", "0">>,
                          views |-> vs.list,
                          intrinsics |-> is.list,
                          poses |-> [k \in DOMAIN sc.ps |-> av_pose(sc.ph[sc.ps[k]])]]] :
             vs \in {Entries([k \in DOMAIN sc.vs |-> sfm_av_view(sc.vh[sc.vs[k]])])},
             is \in {Entries([k \in DOMAIN sc.is |-> sfm_av_intrinsic(sc.ih[sc.is[k]])])}})

(***************************************************************************)
(* Writing the project file.  file is the content of the output path:     *)
(* None while it does not exist, Some(data) once a dict was dumped to it.  *)
(***************************************************************************)
Formats == {"OPEN_MVG", "ALICE_VISION", "OTHER"}

\* with output_file.open(mode='w') as f: json.dump(data, f), reached only
\* when building data raised nothing
WriteFile(file, r, cnt) ==
    IF r.err # "none"
    THEN [err |-> r.err, data |-> NoData, file |-> file, cnt |-> cnt,
          wrote |-> FALSE]
    ELSE [err |-> "none", data |-> r.data, file |-> Some(r.data), cnt |-> cnt,
          wrote |-> TRUE]

\* io.export_scene(path, scene, fmt, convert_rotations)
export_scene(file, sc, fmt, convert_rotations, prev) ==
    IF fmt = "OPEN_MVG"
    THEN Only({WriteFile(file, r, r.cnt) :
                  r \in {scene_to_openmvg(sc, convert_rotations, prev)}})
    ELSE IF fmt = "ALICE_VISION"
    THEN Only({WriteFile(file, r, prev) : r \in {scene_to_alicevision(sc)}})
    ELSE [err |-> "ValueError", data |-> NoData, file |-> file, cnt |-> prev,
          wrote |-> FALSE]

\* sfm.sfm_export(path, sfm, fmt): an if and an elif, and no else
sfm_export(file, sc, fmt, prev) ==
    IF fmt = "OPEN_MVG"
    THEN Only({WriteFile(file, r, r.cnt) : r \in {sfm_export_openmvg(sc, prev)}})
    ELSE IF fmt = "ALICE_VISION"
    THEN Only({WriteFile(file, r, prev) : r \in {sfm_export_alicevision(sc)}})
    ELSE [err |-> "none", data |-> NoData, file |-> file, cnt |-> prev,
          wrote |-> FALSE]

\* openMVG.export_openmvg(path, sfm): the rotations are always converted
export_openmvg(file, sc, prev) ==
    Only({WriteFile(file, r, r.cnt) : r \in {scene_to_openmvg(sc, TRUE, prev)}})

(***************************************************************************)
(* SpecExport: a scene is filled image by image and exported.  hist.style  *)
(* is how the caller links a view to its intrinsic and pose: "ids" as      *)
(* import_pgs_scan does (view.intrinsic_id, view.pose_id), "attrs" as the  *)
(* tests do (view.intrinsic, view.pose, from what add_* return), and       *)
(* "instances" for a caller that stores the instances themselves.          *)
(* hist.file is the output file; hist.first is the first OpenMVG export    *)
(* that returned since the scene last changed, hist.av_since whether an    *)
(* AliceVision export returned after it, and hist.pure whether every pose  *)
(* was added in a round.  nops counts the additions.                       *)
(***************************************************************************)
\* additions made to one scene
MaxRounds == 2

Styles == {"ids", "attrs", "instances"}

\* a rotation of a quarter turn about z, and an assigned center
Rz == <<<<0, -1, 0>>, <<1, 0, 0>>, <<0, 0, 1>>>>
ExportPoses ==
    {NewPose, Pose_set_center(Pose_set_rotation(NewPose, Rz), <<1, 2, 3, 4>>)}

\* one intrinsic of each variant, set up as import_pgs_scan and the tests do
ExportIntrinsics ==
    {SetupIntrinsic("Intrinsic", 2, 2, 1, 1),
     Intrinsic_set_dist_params(SetupIntrinsic("IntrinsicRadialK3", 4, 2, 1, 1), <<1, 2, 3>>),
     SetupIntrinsic("IntrinsicBrownT2", 2, 4, 1, 1)}

NoExport == [op |-> "none", fmt |-> "none", convarg |-> None, convert |-> TRUE,
             err |-> "none", data |-> NoData, cnt |-> ptr_cnt_init,
             wrote |-> FALSE]
NoExportHist == [file |-> None, first |-> None, av_since |-> FALSE,
                 pure |-> TRUE, style |-> "ids"]

InitExport ==
    /\ iheap = <<>> /\ vheap = <<>> /\ pheap = <<>>
    /\ views = <<>> /\ intrinsics = <<>> /\ poses = <<>>
    /\ last = NoExport
    /\ nops = 0
    /\ \E st \in Styles : hist = [NoExportHist EXCEPT !.style = st]

\* view.intrinsic = <the instance in heap cell o>, view.pose likewise: what
\* the exporters of openmvg.py and alicevision.py read
LinkInstance(view, attr, o) ==
    IF attr = "intrinsic" THEN [view EXCEPT !.intrinsic = RefVal(o)]
    ELSE [view EXCEPT !.pose = RefVal(o)]

\* what the caller stores in the view for an element that add_* numbered id
\* and that lives in heap cell o
Link(view, attr, id, o) ==
    CASE hist.style = "ids" /\ attr = "intrinsic" -> [view EXCEPT !.intrinsic_id = id]
      [] hist.style = "ids" /\ attr = "pose" -> [view EXCEPT !.pose_id = id]
      [] hist.style = "attrs" /\ attr = "intrinsic" -> [view EXCEPT !.intrinsic = id]
      [] hist.style = "attrs" /\ attr = "pose" -> [view EXCEPT !.pose = id]
      [] hist.style = "instances" -> LinkInstance(view, attr, o)

Changed ==
    /\ nops < MaxRounds
    /\ nops' = nops + 1
    /\ last' = [NoExport EXCEPT !.op = "add", !.cnt = last.cnt]

\* one image: add_view(view); the view's intrinsic from add_intrinsic(i);
\* its pose from add_pose(q)
AddImage ==
    \E i \in ExportIntrinsics, q \in ExportPoses :
        \E rv \in {SfMScene_add_view(Append(vheap, NewView), views, Len(vheap) + 1)},
           ri \in {SfMScene_add_intrinsic(Append(iheap, i), intrinsics,
                                          Len(iheap) + 1, {})},
           rp \in {SfMScene_add_pose(Append(pheap, q), poses, Len(pheap) + 1)} :
        LET v  == Len(vheap) + 1
            io == ri.list[ri.ret.val + 1]
            v1 == Link(rv.heap[v], "intrinsic", ri.ret, io)
            v2 == Link(v1, "pose", rp.ret, Len(pheap) + 1)
        IN  /\ Changed
            /\ ri.err = "none"
            /\ vheap' = [rv.heap EXCEPT ![v] = v2]
            /\ views' = rv.list
            /\ iheap' = ri.heap
            /\ intrinsics' = ri.list
            /\ pheap' = rp.heap
            /\ poses' = rp.list
            /\ hist' = [hist EXCEPT !.first = None, !.av_since = FALSE]

\* add_pose(q) for a pose no view is linked to
AddLonePose ==
    \E q \in {NewPose} :
        \E rp \in {SfMScene_add_pose(Append(pheap, q), poses, Len(pheap) + 1)} :
            /\ Changed
            /\ pheap' = rp.heap
            /\ poses' = rp.list
            /\ hist' = [hist EXCEPT !.first = None, !.av_since = FALSE,
                                    !.pure = FALSE]
            /\ UNCHANGED <<iheap, vheap, views, intrinsics>>

\* getters that store the value they computed
Intrinsic_after_export_Caching(i) ==
    [i EXCEPT !.ppx = IF Intrinsic_ppx(i).err = "none"
                      THEN Some(Intrinsic_ppx(i).val) ELSE i.ppx,
              !.ppy = IF Intrinsic_ppy(i).err = "none"
                      THEN Some(Intrinsic_ppy(i).val) ELSE i.ppy,
              !.focal_length_as_pixels =
                  IF Intrinsic_focal_length_as_pixels(i).err = "none"
                  THEN Some(Intrinsic_focal_length_as_pixels(i).val)
                  ELSE i.focal_length_as_pixels]

\* an intrinsic after an exporter read its id, width, height, ppx, ppy,
\* focal_length_as_pixels, type and dist_params: the getters assign nothing
Intrinsic_after_export(i) == i

\* the intrinsics heap after an exporter went through scene.intrinsics
ReadIntrinsics(ih, is) ==
    [o \in DOMAIN ih |->
        IF \E k \in DOMAIN is : is[k] = o THEN Intrinsic_after_export(ih[o])
        ELSE ih[o]]

\* convert_rotations: bool = True in the signature: the value of an
\* argument that may be left out
convert_rotations_of(arg) == IF arg = None THEN TRUE ELSE arg[1]

\* an export call: its record, the file, and the scene after it
Exported(op, fmt, arg, conv, r) ==
    /\ last' = [op |-> op, fmt |-> fmt, convarg |-> arg, convert |-> conv,
                err |-> r.err, data |-> r.data, cnt |-> r.cnt,
                wrote |-> r.wrote]
    /\ hist' = [hist EXCEPT
                   !.file = r.file,
                   !.first = IF hist.first = None /\ r.wrote
                                /\ r.data.format = "openmvg"
                             THEN Some([op |-> op, convert |-> conv, data |-> r.data])
                             ELSE hist.first,
                   !.av_since = \/ hist.av_since
                                \/ /\ hist.first # None
                                   /\ r.wrote
                                   /\ r.data.format = "alicevision"]
    /\ iheap' = IF fmt = "OTHER" THEN iheap ELSE ReadIntrinsics(iheap, intrinsics)
    /\ UNCHANGED <<vheap, pheap, views, intrinsics, poses, nops>>

Scene == SceneOf(iheap, vheap, pheap, views, intrinsics, poses)

\* export_scene(path, scene, fmt, convert_rotations)
ExportScene ==
    \E fmt \in Formats, arg \in {None, Some(FALSE)} :
        \E r \in {export_scene(hist.file, Scene, fmt,
                                convert_rotations_of(arg), last.cnt)} :
            Exported("export_scene", fmt, arg, convert_rotations_of(arg), r)

\* sfm_export(path, sfm, fmt), which SfMScene.save calls
SfmExport ==
    \E fmt \in Formats :
        \E r \in {sfm_export(hist.file, Scene, fmt, last.cnt)} :
            Exported("sfm_export", fmt, None, TRUE, r)

\* export_openmvg(path, sfm)
ExportOpenMVG ==
    \E r \in {export_openmvg(hist.file, Scene, last.cnt)} :
        Exported("export_openmvg", "OPEN_MVG", None, TRUE, r)

NextExport ==
    \/ AddImage
    \/ AddLonePose
    \/ ExportScene
    \/ SfmExport
    \/ ExportOpenMVG

SpecExport == InitExport /\ [][NextExport]_vars

(***************************************************************************)
(* Properties of the scene, checked under Spec.                            *)
(***************************************************************************)
\* every property that equality reads has a value
Readable(i) ==
    /\ Intrinsic_ppx(i).err = "none"
    /\ Intrinsic_ppy(i).err = "none"
    /\ Intrinsic_focal_length_as_pixels(i).err = "none"

\* value equality as the data model states it
SameValue(a, b) ==
    /\ Intrinsic_type(a) = Intrinsic_type(b)
    /\ a.image_width = b.image_width
    /\ a.image_height = b.image_height
    /\ Intrinsic_ppx(a).val = Intrinsic_ppx(b).val
    /\ Intrinsic_ppy(a).val = Intrinsic_ppy(b).val
    /\ Intrinsic_focal_length_as_pixels(a).val = Intrinsic_focal_length_as_pixels(b).val
    /\ (Intrinsic_type(a) # "pinhole" =>
            Intrinsic_dist_params(a) = Intrinsic_dist_params(b))

\* no entity occurs twice in a list
NoDup(list) == \A j, k \in 1..Len(list) : j # k => list[j] # list[k]

\* the entries of a list carry ids, from 0 on, that grow along the list
StrictIds(heap, list) ==
    \A k \in 1..Len(list) :
        /\ heap[list[k]].id # None
        /\ heap[list[k]].id[1] >= 0
        /\ \A j \in 1..(k - 1) : heap[list[j]].id[1] < heap[list[k]].id[1]

\* a step keeps every id that was assigned
IdsKept(before, after) ==
    \A o \in DOMAIN before : before[o].id # None => after[o].id = before[o].id

\* two add_intrinsic calls in a row, without keywords, the first of which
\* returned, with value-equal arguments
TwoEqualAdds ==
    /\ last.op = "add_intrinsic" /\ last.kw = {}
    /\ last.pop = "add_intrinsic" /\ last.pret.kind # "none"
    /\ Readable(iheap[last.parg]) /\ Readable(iheap[last.arg])
    /\ SameValue(iheap[last.parg], iheap[last.arg])

\* C1: when add_intrinsic(a) is followed by add_intrinsic(b) with b
\* value-equal to a, the second call returns the id the first returned,
\* leaves the length of scene.intrinsics as it was and assigns no id.
C1_EqualIntrinsicSameId ==
    TwoEqualAdds =>
        /\ last.err = "none"
        /\ last.ret.kind = "int"
        /\ last.ret = last.pret
        /\ last.hit
        /\ Len(intrinsics) = last.prelen
        /\ iheap[last.arg].id = last.preid

\* C1 witness: the second call passed another object than the first, with
\* different fields (an explicit ppx equal to the default), and got the
\* first call's id without being numbered.
C1_Witness ==
    /\ TwoEqualAdds
    /\ last.arg # last.parg
    /\ iheap[last.arg].ppx # iheap[last.parg].ppx
    /\ last.ret = last.pret
    /\ iheap[last.arg].id = None
    /\ Len(intrinsics) >= 2

\* C2: as long as no view (pose) was added twice, the k-th entry of views
\* (poses) has id k-1; every add_view / add_pose call appends its argument:
\* the list grows by exactly one.
C2_SequentialIds ==
    /\ NoDup(views) => \A k \in 1..Len(views) : vheap[views[k]].id = Some(k - 1)
    /\ NoDup(poses) => \A k \in 1..Len(poses) : pheap[poses[k]].id = Some(k - 1)
    /\ last.op = "add_view" =>
           /\ Len(views) = last.prelen + 1
           /\ views[Len(views)] = last.arg
           /\ last.ret = IntVal(last.prelen)
    /\ last.op = "add_pose" =>
           /\ Len(poses) = last.prelen + 1
           /\ poses[Len(poses)] = last.arg
           /\ last.ret = IntVal(last.prelen)

\* C2 witness: two distinct views and two distinct poses, all value-equal,
\* were added.
C2_Witness ==
    /\ Len(views) = 2 /\ NoDup(views)
    /\ Len(poses) = 2 /\ NoDup(poses)
    /\ vheap[views[2]].id = Some(1)
    /\ pheap[poses[2]].id = Some(1)

\* C3 as stated: in any sequence of calls, also calls that pass an entity
\* added before, no call changes an assigned id, and the ids of each list
\* are 0-based and strictly increasing in list order (so no two entries
\* carry the same id).
C3_IdsNeverChange ==
    [][ /\ IdsKept(vheap, vheap') /\ StrictIds(vheap', views')
        /\ IdsKept(pheap, pheap') /\ StrictIds(pheap', poses')
        /\ IdsKept(iheap, iheap') /\ StrictIds(iheap', intrinsics') ]_vars

\* C3 amended: the same, for views as long as no view was passed twice to
\* add_view, for poses as long as no pose was passed twice to add_pose, and
\* for intrinsics always (an intrinsic passed again is found equal to
\* itself).
C3_IdsNeverChangeUnlessReadded ==
    [][ /\ NoDup(views') => (IdsKept(vheap, vheap') /\ StrictIds(vheap', views'))
        /\ NoDup(poses') => (IdsKept(pheap, pheap') /\ StrictIds(pheap', poses'))
        /\ IdsKept(iheap, iheap') /\ StrictIds(iheap', intrinsics') ]_vars

\* C3 witness: a stored intrinsic was passed to add_intrinsic again, after
\* two views, and kept its id.
C3_Witness ==
    /\ last.op = "add_intrinsic" /\ last.kw = {}
    /\ last.preid # None
    /\ \E k \in 1..Len(intrinsics) : intrinsics[k] = last.arg
    /\ iheap[last.arg].id = last.preid
    /\ Len(views) = 2 /\ NoDup(views)

\* C4: add_view, add_intrinsic and add_pose return the instance the scene
\* holds (the argument; for add_intrinsic on a hit the stored equal
\* instance), so that the id of a view's intrinsic and pose, assigned from
\* what the calls returned, is an integer.
C4_ReturnsInstance ==
    /\ (last.op \in {"add_view", "add_pose"}) => last.ret = RefVal(last.arg)
    /\ (last.op = "add_intrinsic" /\ last.kw = {}) =>
           /\ last.ret.kind = "ref"
           /\ ~last.hit => last.ret.val = last.arg
           /\ last.hit => \E k \in 1..Len(intrinsics) : intrinsics[k] = last.ret.val
    /\ \A v \in DOMAIN vheap :
           /\ vheap[v].intrinsic # NoneVal =>
                  /\ AttrId(iheap, vheap[v].intrinsic).err = "none"
                  /\ AttrId(iheap, vheap[v].intrinsic).val.kind = "int"
           /\ vheap[v].pose # NoneVal =>
                  /\ AttrId(pheap, vheap[v].pose).err = "none"
                  /\ AttrId(pheap, vheap[v].pose).val.kind = "int"

\* C5: add_intrinsic(intrinsic, group_models=False) numbers the argument
\* with the length of the list before the call, appends it and returns,
\* also when an equal intrinsic is stored.
C5_GroupModelsFalseAppends ==
    (last.op = "add_intrinsic" /\ last.kw = {<<"group_models", FALSE>>}) =>
        /\ last.err = "none"
        /\ ~last.hit
        /\ Len(intrinsics) = last.prelen + 1
        /\ intrinsics[Len(intrinsics)] = last.arg
        /\ iheap[last.arg].id = Some(last.prelen)

(***************************************************************************)
(* Properties of the intrinsics, checked under SpecIntr.                   *)
(***************************************************************************)

Ids == {None, Some(0)}

\* C6: a == b is True exactly when a and b are the same variant with equal
\* width, height, ppx, ppy, focal_length_as_pixels and (RadialK3, BrownT2)
\* equal dist_params, and False otherwise; the result is the same with the
\* operands swapped and with any ids put on the operands.
C6_EqualityIsValueEquality ==
    /\ \A mn \in {<<1, 2>>, <<2, 1>>, <<1, 1>>} :
           LET a == iheap[mn[1]]
               b == iheap[mn[2]]
           IN  (Readable(a) /\ Readable(b)) =>
                   PyEq(a, b) = (IF SameValue(a, b) THEN "True" ELSE "False")
    /\ LET a == iheap[1]
           b == iheap[2]
           ab == PyEq(a, b)
           ba == PyEq(b, a)
       IN  /\ (ab = "True") = (ba = "True")
           /\ (ab = "False") = (ba = "False")
           /\ \A x, y \in Ids :
                  PyEq([a EXCEPT !.id = x], [b EXCEPT !.id = y]) = ab

\* C6 witness: two instances that differ in their fields (an explicit ppx on
\* one, the default on the other; different ids or coefficients assigned)
\* compare equal.
C6_Witness ==
    /\ PyEq(iheap[1], iheap[2]) = "True"
    /\ iheap[1].cls # "Intrinsic"
    /\ iheap[1].ppx # iheap[2].ppx
    /\ hist.ppx # None
    /\ iheap[1].id # iheap[2].id

\* C7: while ppx (ppy) was never assigned, reading it gives the current
\* width / 2 (height / 2); once assigned, reading it gives the last value
\* assigned, whatever width and height have become.
C7_PrincipalPointDefault ==
    LET i == iheap[1]
        x == Intrinsic_ppx(i)
        y == Intrinsic_ppy(i)
    IN  /\ (hist.ppx = None /\ i.image_width # None) =>
               /\ x.err = "none"
               /\ 2 * x.val[1] = i.image_width[1] * x.val[2]
        /\ (hist.ppy = None /\ i.image_height # None) =>
               /\ y.err = "none"
               /\ 2 * y.val[1] = i.image_height[1] * y.val[2]
        /\ hist.ppx # None => x = Ok(hist.ppx[1])
        /\ hist.ppy # None => y = Ok(hist.ppy[1])

\* C7 witness: ppx was assigned and width changed afterwards, so that ppx is
\* no longer width / 2, while the unassigned ppy follows the height.
C7_Witness ==
    /\ hist.ppx # None
    /\ hist.dim_after_pp
    /\ iheap[1].image_width # None
    /\ 2 * Intrinsic_ppx(iheap[1]).val[1] # iheap[1].image_width[1] * Intrinsic_ppx(iheap[1]).val[2]
    /\ hist.ppy = None
    /\ iheap[1].image_height = Some(4)

\* C8: with no override assigned, reading focal_length_as_pixels gives
\* max(width, height) * focal_length / sensor_width of the current fields;
\* with an override assigned it gives the override, whatever the fields are.
C8_FocalLengthAsPixels ==
    LET i == iheap[1]
        f == Intrinsic_focal_length_as_pixels(i)
    IN  /\ ( /\ hist.focal_length_as_pixels = None
             /\ i.image_width # None /\ i.image_height # None
             /\ i.focal_length # None /\ i.sensor_width # None
             /\ i.sensor_width[1] # 0 ) =>
               /\ f.err = "none"
               /\ f.val[1] * i.sensor_width[1] =
                      f.val[2] * Max(i.image_width[1], i.image_height[1]) * i.focal_length[1]
        /\ hist.focal_length_as_pixels # None => f = Ok(hist.focal_length_as_pixels[1])

\* C8 witness: an override was assigned, a source field was assigned after
\* it, and the override is not what the fields would give.
C8_Witness ==
    LET i == iheap[1]
    IN  /\ hist.focal_length_as_pixels # None
        /\ hist.src_after_focal
        /\ i.image_width # None /\ i.image_height # None
        /\ i.focal_length # None /\ i.sensor_width # None
        /\ i.sensor_width[1] # 0
        /\ hist.focal_length_as_pixels[1][1] * i.sensor_width[1] #
               Max(i.image_width[1], i.image_height[1]) * i.focal_length[1]

\* C9: after dist_params was assigned the list p, the stored list is the
\* first min(len(p), k) elements of p, k = 3 for RadialK3, 5 for BrownT2.
C9_DistParamsTruncated ==
    LET i == iheap[1]
        k == IF i.cls = "IntrinsicRadialK3" THEN 3 ELSE 5
    IN  hist.dist_params # None =>
            LET p == hist.dist_params[1]
                q == Intrinsic_dist_params(i)
            IN  /\ q # None
                /\ Len(q[1]) = Min(Len(p), k)
                /\ Len(q[1]) <= k
                /\ \A j \in 1..Len(q[1]) : q[1][j] = p[j]

\* C9 witness: a list longer than the variant's length was assigned.
C9_Witness ==
    /\ hist.dist_params # None
    /\ iheap[1].cls = "IntrinsicRadialK3"
    /\ Len(hist.dist_params[1]) = 4
    /\ Intrinsic_dist_params(iheap[1]) = Some(<<1, 2, 3>>)

\* the default coefficients of a variant
DefaultDist(cls) ==
    CASE cls = "Intrinsic" -> None
      [] cls = "IntrinsicRadialK3" -> Some([k \in 1..3 |-> 0])
      [] cls = "IntrinsicBrownT2" -> Some([k \in 1..5 |-> 0])

\* C10: an instance whose dist_params was never assigned reads None
\* (Pinhole), [0,0,0] (RadialK3) or [0,0,0,0,0] (BrownT2), also after
\* dist_params was assigned on another instance of the same variant.
C10_DistParamsDefault ==
    /\ hist.dist_params = None =>
           Intrinsic_dist_params(iheap[1]) = DefaultDist(iheap[1].cls)
    /\ ~hist.other_assigned =>
           Intrinsic_dist_params(iheap[2]) = DefaultDist(iheap[2].cls)

\* C10 witness: dist_params was assigned on one RadialK3 and the other
\* RadialK3 still reads its default.
C10_Witness ==
    /\ hist.dist_params # None
    /\ ~hist.other_assigned
    /\ iheap[1].cls = "IntrinsicRadialK3"
    /\ iheap[2].cls = "IntrinsicRadialK3"
    /\ Intrinsic_dist_params(iheap[1]) # Intrinsic_dist_params(iheap[2])
    /\ Intrinsic_dist_params(iheap[2]) = Some(<<0, 0, 0>>)

\* C11: assigning a list to dist_params of a base Intrinsic raises at the
\* assignment; the instance still reads None for dist_params and no field
\* of it (nor of the other instance) has changed.
C11_BaseDistParamsNotSettable ==
    [][iheap[1].cls = "Intrinsic" =>
          /\ hist'.dist_params = None
          /\ Intrinsic_dist_params(iheap'[1]) = None
          /\ last'.op = "set_dist_params" =>
                 /\ last'.err = "AttributeError"
                 /\ iheap' = iheap]_vars

\* C11 witness: a base Intrinsic whose fields were set up, after a failed
\* assignment to its dist_params.
C11_Witness ==
    /\ iheap[1].cls = "Intrinsic"
    /\ iheap[1].image_width # None
    /\ last.op = "set_dist_params"
    /\ last.err = "AttributeError"
    /\ Intrinsic_dist_params(iheap[1]) = None

(***************************************************************************)
(* Properties of the exporters, checked under SpecExport.                  *)
(***************************************************************************)
\* the last call was an OpenMVG export that returned
OpenMVGDone == last.err = "none" /\ last.data.format = "openmvg"
\* the last call was an AliceVision export that returned
AliceVisionDone == last.err = "none" /\ last.data.format = "alicevision"

\* C12: in an OpenMVG export of V views and N intrinsics the i-th view in
\* scene order carries pointer id 2147483649 + i and the j-th intrinsic
\* 2147483649 + V + j; the counter ends at 2147483649 + V + N, so it grew
\* by one per view and per intrinsic and by nothing per pose.
C12_PointerIds ==
    OpenMVGDone =>
        /\ Len(last.data.views) = Len(views)
        /\ Len(last.data.intrinsics) = Len(intrinsics)
        /\ Len(last.data.extrinsics) = Len(poses)
        /\ \A i \in 1..Len(views) :
              /\ last.data.views[i].key = vheap[views[i]].id
              /\ last.data.views[i].ptr_id = ptr_cnt_init + (i - 1)
        /\ \A j \in 1..Len(intrinsics) :
              /\ last.data.intrinsics[j].key = iheap[intrinsics[j]].id
              /\ last.data.intrinsics[j].ptr_id = ptr_cnt_init + Len(views) + (j - 1)
        /\ last.cnt = ptr_cnt_init + Len(views) + Len(intrinsics)

\* C12 witness: two views that share one intrinsic and two poses were
\* exported: the views carry 2147483649 and 2147483650, the intrinsic
\* 2147483651.
C12_Witness ==
    /\ OpenMVGDone
    /\ Len(views) = 2 /\ Len(intrinsics) = 1 /\ Len(poses) = 2
    /\ last.data.views[1].ptr_id = 1
    /\ last.data.views[2].ptr_id = 2
    /\ last.data.intrinsics[1].ptr_id = 3

\* C13: the pointer counter belongs to one export call.  Whatever exports
\* (OpenMVG or AliceVision, by any of the entry points) came before, an
\* OpenMVG export numbers its first entry 2147483649, and it builds and
\* writes the same dict as the first OpenMVG export of the unchanged scene
\* with the same rotation conversion.
C13_CounterLocal ==
    OpenMVGDone =>
        /\ views # <<>> => last.data.views[1].ptr_id = ptr_cnt_init
        /\ views = <<>> /\ intrinsics # <<>> =>
               last.data.intrinsics[1].ptr_id = ptr_cnt_init
        /\ hist.file = Some(last.data)
        /\ hist.first # None
        /\ hist.first[1].convert = last.convert => last.data = hist.first[1].data

\* C13 witness: a scene with a view was exported to OpenMVG, then to
\* AliceVision, then to OpenMVG again, with equal results.
C13_Witness ==
    /\ OpenMVGDone
    /\ hist.first # None
    /\ hist.av_since
    /\ Len(views) >= 1
    /\ last.data.views[1].ptr_id = 1
    /\ last.data = hist.first[1].data

\* rows 0 and 2 of a matrix negated, row 1 kept
NegateRows02(m) ==
    <<<<-m[1][1], -m[1][2], -m[1][3]>>, m[2], <<-m[3][1], -m[3][2], -m[3][3]>>>>

\* C14: the k-th extrinsic of an OpenMVG export holds the rotation of the
\* k-th pose with rows 0 and 2 negated when convert_rotations is true (also
\* when the argument is left out, and in export_openmvg, which has no such
\* argument), the rotation itself when it is false, and in both cases the
\* center of the pose as it is.
C14_RotationConversion ==
    OpenMVGDone =>
        /\ last.convarg = None => last.convert
        /\ \A k \in 1..Len(poses) :
              /\ last.data.extrinsics[k].key = pheap[poses[k]].id
              /\ last.data.extrinsics[k].center = Pose_center(pheap[poses[k]])
              /\ last.data.extrinsics[k].rotation =
                    IF last.convert THEN NegateRows02(Pose_rotation(pheap[poses[k]]))
                    ELSE Pose_rotation(pheap[poses[k]])

\* C14 witness: a pose turned a quarter about z, centered at (1, 2, 3), was
\* exported with convert_rotations left out.
C14_Witness ==
    /\ OpenMVGDone
    /\ last.op = "export_scene"
    /\ last.convarg = None
    /\ Len(poses) >= 1
    /\ pheap[poses[1]].rotation = Some(Rz)
    /\ last.data.extrinsics[1].rotation = <<<<0, 1, 0>>, <<1, 0, 0>>, <<0, 0, -1>>>>
    /\ last.data.extrinsics[1].center = <<1, 2, 3>>

\* C15: the k-th pose of an AliceVision export holds as rotation the nine
\* strings of R00, R10, R20, R01, R11, R21, R02, R12, R22 for the rotation
\* R of the k-th pose: element e (from 0) is str(R[e mod 3][e div 3]).
C15_ColumnMajorRotation ==
    AliceVisionDone =>
        \A k \in 1..Len(poses) :
            LET R == Pose_rotation(pheap[poses[k]])
                out == last.data.poses[k].rotation
            IN  /\ Len(out) = 9
                /\ \A e \in 0..8 : out[e + 1] = Str(R[(e % 3) + 1][(e \div 3) + 1])
                /\ out = <<Str(R[1][1]), Str(R[2][1]), Str(R[3][1]),
                           Str(R[1][2]), Str(R[2][2]), Str(R[3][2]),
                           Str(R[1][3]), Str(R[2][3]), Str(R[3][3])>>

\* C15 witness: a pose turned a quarter about z, whose matrix is not
\* symmetric, was exported to AliceVision.
C15_Witness ==
    /\ AliceVisionDone
    /\ Len(poses) >= 1
    /\ pheap[poses[1]].rotation = Some(Rz)
    /\ last.data.poses[1].rotation =
           StrEach(<<0, 1, 0, -1, 0, 0, 0, 0, 1>>)

\* the polymorphic_name and the distortion entry of the data that C16 states
\* for an intrinsic
OpenMVGName(i) ==
    CASE i.cls = "Intrinsic" -> "pinhole"
      [] i.cls = "IntrinsicRadialK3" -> "pinhole_radial_k3"
      [] i.cls = "IntrinsicBrownT2" -> "pinhole_brown_t2"
OpenMVGDist(i) ==
    CASE i.cls = "Intrinsic" -> {}
      [] i.cls = "IntrinsicRadialK3" -> {<<"disto_k3", Intrinsic_dist_params(i)[1]>>}
      [] i.cls = "IntrinsicBrownT2" -> {<<"disto_t2", Intrinsic_dist_params(i)[1]>>}

C17_DistortionParams ==
    AliceVisionDone =>
        \A j \in 1..Len(intrinsics) :
            LET i == iheap[intrinsics[j]]
            IN  /\ last.data.intrinsics[j].type = Intrinsic_type(i)
                /\ last.data.intrinsics[j].data.dist =
                      IF i.cls \in {"IntrinsicRadialK3", "IntrinsicBrownT2"}
                      THEN {<<"distortionParams", StrEach(Intrinsic_dist_params(i)[1])>>}
                      ELSE {}

ExportOps == {"export_scene", "sfm_export", "export_openmvg"}

\* C18: an export whose format is neither OpenMVG nor AliceVision raises
\* the unknown-format error and leaves the file and the scene as they were;
\* an export that returns has written one of the two formats.
C18_UnknownFormat ==
    [][last'.op \in ExportOps =>
          /\ last'.fmt = "OTHER" =>
                /\ last'.err = "ValueError"
                /\ ~last'.wrote
                /\ hist'.file = hist.file
                /\ <<iheap, vheap, pheap, views, intrinsics, poses>>' =
                       <<iheap, vheap, pheap, views, intrinsics, poses>>
          /\ last'.err = "none" =>
                /\ last'.wrote
                /\ last'.data.format \in {"openmvg", "alicevision"}
                /\ hist'.file = Some(last'.data)]_vars

\* C19: an export call, whatever its format and outcome, leaves the lists
\* of the scene and every object they hold as they were; a ppx, ppy or
\* focal_length_as_pixels that was unset is still unset after it was read.
C19_ExportLeavesScene ==
    [][last'.op \in ExportOps =>
          <<iheap, vheap, pheap, views, intrinsics, poses>>' =
              <<iheap, vheap, pheap, views, intrinsics, poses>>]_vars

\* C19 witness: an export returned the computed principal point and focal
\* length of an intrinsic whose ppx, ppy and focal_length_as_pixels are
\* unset, and they are unset after it.
C19_Witness ==
    /\ OpenMVGDone
    /\ Len(intrinsics) >= 1
    /\ iheap[intrinsics[1]].ppx = None
    /\ iheap[intrinsics[1]].ppy = None
    /\ iheap[intrinsics[1]].focal_length_as_pixels = None
    /\ last.data.intrinsics[1].data.principal_point = <<<<1, 1>>, <<1, 1>>>>
    /\ last.data.intrinsics[1].data.focal_length = <<2, 1>>

\* the pose id a view holds, under the attribute its caller assigned
ViewPoseId(view) ==
    CASE hist.style = "ids" -> view.pose_id
      [] hist.style = "attrs" -> view.pose
      [] hist.style = "instances" -> AttrId(pheap, view.pose).val

\* the number of entries of a list that satisfy a test
CountKey(list, Test(_)) == Cardinality({k \in DOMAIN list : Test(list[k])})

\* C20: after any number of rounds add_view(view), view's intrinsic from
\* add_intrinsic, view's pose from add_pose: there are as many poses as
\* views, every view's pose id is its view id, there are at most as many
\* intrinsics as views, and export_scene to either format returns a dict in
\* which the intrinsic id and the pose id of every view are the key (id) of
\* exactly one intrinsic entry and of exactly one pose entry.
C20_RoundsConsistent ==
    hist.pure =>
        /\ Len(views) = Len(poses)
        /\ Len(intrinsics) <= Len(views)
        /\ \A k \in 1..Len(views) :
              ViewPoseId(vheap[views[k]]) = IntVal(vheap[views[k]].id[1])
        /\ last.op = "export_scene" /\ last.fmt = "OPEN_MVG" =>
              /\ last.err = "none"
              /\ \A k \in 1..Len(views) :
                    LET e == last.data.views[k]
                        IsIntr(x) == x.key = Some(e.id_intrinsic.val)
                        IsPose(x) == x.key = Some(e.id_pose.val)
                    IN  /\ CountKey(last.data.intrinsics, IsIntr) = 1
                        /\ CountKey(last.data.extrinsics, IsPose) = 1
        /\ last.op = "export_scene" /\ last.fmt = "ALICE_VISION" =>
              /\ last.err = "none"
              /\ \A k \in 1..Len(views) :
                    LET e == last.data.views[k]
                        IsIntr(x) == x.intrinsicID = Str(Some(e.intrinsicID[2].val))
                        IsPose(x) == x.poseId = Str(Some(e.poseID[2].val))
                    IN  /\ CountKey(last.data.intrinsics, IsIntr) = 1
                        /\ CountKey(last.data.poses, IsPose) = 1

(***************************************************************************)
(* The stored intrinsics as a whole, checked under Spec.                   *)
(***************************************************************************)
\* two intrinsics are value-equal as the data model states it
ValueEqual(a, b) == Readable(a) /\ Readable(b) /\ SameValue(a, b)

\* no two entries of a list are value-equal
PairwiseDistinct(heap, list) ==
    \A j, k \in 1..Len(list) :
        j # k => ~ValueEqual(heap[list[j]], heap[list[k]])

\* the entry at list index i (from 0) has id i
IdIsIndex(heap, list) ==
    \A k \in 1..Len(list) : heap[list[k]].id = Some(k - 1)

\* C21: an add_intrinsic call without keywords, made on a scene whose
\* intrinsics are pairwise not value-equal and carry their list index as id
\* (the empty scene is one, and only an assignment to a stored intrinsic
\* leads out of these scenes), leaves such a scene; when the call misses,
\* the list grows by the argument alone and every intrinsic stored before
\* keeps its position and its id.
C21_StoredIntrinsicsDistinct ==
    [][ ( /\ last'.op = "add_intrinsic" /\ last'.kw = {}
          /\ PairwiseDistinct(iheap, intrinsics)
          /\ IdIsIndex(iheap, intrinsics) ) =>
        ( /\ PairwiseDistinct(iheap', intrinsics')
          /\ IdIsIndex(iheap', intrinsics')
          /\ (last'.err = "none" /\ ~last'.hit) =>
                /\ Len(intrinsics') = Len(intrinsics) + 1
                /\ intrinsics'[Len(intrinsics')] = last'.arg
                /\ \A k \in 1..Len(intrinsics) :
                      /\ intrinsics'[k] = intrinsics[k]
                      /\ iheap'[intrinsics[k]].id = iheap[intrinsics[k]].id ) ]_vars

\* C21 witness: four calls, each with a new intrinsic and none modified: two
\* misses, a hit on the first stored intrinsic, and a miss that made the
\* list three long.
C21_Witness ==
    /\ nops = 4 /\ Len(iheap) = 4
    /\ last.op = "add_intrinsic" /\ last.kw = {} /\ last.err = "none"
    /\ ~last.hit /\ last.ret = IntVal(2)
    /\ last.pop = "add_intrinsic" /\ last.pret = IntVal(0)
    /\ Len(intrinsics) = 3
    /\ PairwiseDistinct(iheap, intrinsics)
    /\ IdIsIndex(iheap, intrinsics)
    /\ \E o \in 1..Len(iheap) :
          /\ iheap[o].id = None
          /\ ValueEqual(iheap[o], iheap[intrinsics[1]])

====
